---- MODULE Spec2Model ----
(***************************************************************************)
(* Timestamper: the metadata accessor (exif_editor.py, class ExifEditor)   *)
(* and the batch assigner (timestamper.py, main / process_files).          *)
(*                                                                         *)
(* Text is modelled as a sequence of one-character strings, so that the    *)
(* code's parsing, stripping, joining and formatting are computed and not  *)
(* assumed.  An optional value (Python None or a str) is a sequence of     *)
(* length 0 (None) or 1 (the str).                                         *)
(***************************************************************************)
EXTENDS Integers, Sequences, FiniteSets, TLC

(***************************************************************************)
(* Bounds of the model.                                                    *)
(***************************************************************************)
\* longest directory listing handed to process_files
MaxFiles == 3
\* most calls a client makes on one ExifEditor
MaxCalls == 3

(***************************************************************************)
(* Text helpers: str.strip, str.splitlines, str.split(': ', 1), 'in'.      *)
(***************************************************************************)
None == <<>>

Some(s) == <<s>>

\* Python truthiness of an Optional[str]: None and '' are false
Truthy(o) == o # None /\ o[1] # <<>>

IsSpace(c) == c \in {" ", "\t", "\n"}

RECURSIVE lstrip(_)
lstrip(s) == IF s # <<>> /\ IsSpace(Head(s)) THEN lstrip(Tail(s)) ELSE s

RECURSIVE rstrip(_)
rstrip(s) ==
    IF s # <<>> /\ IsSpace(s[Len(s)]) THEN rstrip(SubSeq(s, 1, Len(s) - 1)) ELSE s

strip(s) == rstrip(lstrip(s))

\* index of the first "\n" in s, 0 when there is none
RECURSIVE FindNewline(_, _)
FindNewline(s, i) ==
    IF i > Len(s) THEN 0
    ELSE IF s[i] = "\n" THEN i
    ELSE FindNewline(s, i + 1)

\* str.splitlines(): the lines of s without their terminators
RECURSIVE splitlines(_)
splitlines(s) ==
    IF s = <<>> THEN <<>>
    ELSE LET n == FindNewline(s, 1)
         IN  IF n = 0 THEN <<s>>
             ELSE <<SubSeq(s, 1, n - 1)>> \o splitlines(SubSeq(s, n + 1, Len(s)))

\* index of the first occurrence of ': ' in line, 0 when there is none
RECURSIVE FindColonSpace(_, _)
FindColonSpace(line, i) ==
    IF i + 1 > Len(line) THEN 0
    ELSE IF line[i] = ":" /\ line[i + 1] = " " THEN i
    ELSE FindColonSpace(line, i + 1)

(***************************************************************************)
(* Literals of the program.                                                *)
(***************************************************************************)
TagDateTimeOriginal ==
    <<"D","a","t","e","T","i","m","e","O","r","i","g","i","n","a","l">>

TagUserComment == <<"U","s","e","r","C","o","m","m","e","n","t">>

StrNone == <<"N","o","n","e">>

CommentPrefix ==
    <<"A","d","j","u","s","t","e","d","D","a","t","e","T","i","m","e","_">>

DigitChars == <<"0","1","2","3","4","5","6","7","8","9">>

IsDigit(c) == \E n \in 1..10 : DigitChars[n] = c

DigitVal(c) == (CHOOSE n \in 1..10 : DigitChars[n] = c) - 1

Pad2(n) == <<DigitChars[(n \div 10) + 1], DigitChars[(n % 10) + 1]>>

Pad4(n) == Pad2(n \div 100) \o Pad2(n % 100)

(***************************************************************************)
(* The proleptic Gregorian calendar of datetime.datetime, whose values     *)
(* are records [year, month, day, hour, minute, second, microsecond].      *)
(***************************************************************************)
MINYEAR == 1

MAXYEAR == 9999

IsLeap(y) == y % 4 = 0 /\ (y % 100 # 0 \/ y % 400 = 0)

DaysInMonth(y, m) ==
    IF m = 2 THEN (IF IsLeap(y) THEN 29 ELSE 28)
    ELSE IF m \in {4, 6, 9, 11} THEN 30 ELSE 31

RECURSIVE DaysBeforeMonth(_, _)
DaysBeforeMonth(y, m) ==
    IF m = 1 THEN 0 ELSE DaysBeforeMonth(y, m - 1) + DaysInMonth(y, m - 1)

DaysBeforeYear(y) ==
    (y - 1) * 365 + ((y - 1) \div 4) - ((y - 1) \div 100) + ((y - 1) \div 400)

\* date.toordinal(): 0001-01-01 is day 1
ymd2ord(y, m, d) == DaysBeforeYear(y) + DaysBeforeMonth(y, m) + d

MaxOrdinal == ymd2ord(MAXYEAR, 12, 31)

\* the year holding day number n
RECURSIVE YearOfOrdinal(_, _)
YearOfOrdinal(n, y) ==
    IF n <= DaysBeforeYear(y + 1) THEN y ELSE YearOfOrdinal(n, y + 1)

RECURSIVE MonthOfDay(_, _, _)
MonthOfDay(y, n, m) ==
    IF n <= DaysBeforeMonth(y, m) + DaysInMonth(y, m) THEN m
    ELSE MonthOfDay(y, n, m + 1)

\* date.fromordinal(n)
ord2ymd(n) ==
    LET y == YearOfOrdinal(n, ((n - 1) \div 366) + 1)
        r == n - DaysBeforeYear(y)
        m == MonthOfDay(y, r, 1)
    IN  [year |-> y, month |-> m, day |-> r - DaysBeforeMonth(y, m)]

\* datetime.timedelta holding us microseconds, normalised as Python does
\* (0 <= seconds < 86400, 0 <= microseconds < 1000000, days signed)
Timedelta(s, us) ==
    LET secs == s + (us \div 1000000)
    IN  [days |-> secs \div 86400,
         seconds |-> secs % 86400,
         microseconds |-> us % 1000000]

\* timedelta * int
TimedeltaMul(td, k) ==
    Timedelta((td.days * 86400 + td.seconds) * k, td.microseconds * k)

\* datetime + timedelta: [ok |-> FALSE] is OverflowError (date value out of range)
DatetimeAdd(dt, td) ==
    LET us   == dt.microsecond + td.microseconds
        secs == dt.hour * 3600 + dt.minute * 60 + dt.second + td.seconds
                    + (us \div 1000000)
        days == ymd2ord(dt.year, dt.month, dt.day) + td.days + (secs \div 86400)
        sod  == secs % 86400
        date == ord2ymd(days)
    IN  IF 0 < days /\ days <= MaxOrdinal
        THEN [ok |-> TRUE,
              dt |-> [year        |-> date.year,
                      month       |-> date.month,
                      day         |-> date.day,
                      hour        |-> sod \div 3600,
                      minute      |-> (sod % 3600) \div 60,
                      second      |-> sod % 60,
                      microsecond |-> us % 1000000]]
        ELSE [ok |-> FALSE, dt |-> dt]

(***************************************************************************)
(* datetime.strptime(dt_str, '%Y:%m:%d %H:%M:%S').  The library compiles   *)
(* the format to the regular expression                                    *)
(*   (\d\d\d\d):(1[0-2]|0[1-9]|[1-9]):(3[01]|[12]\d|0[1-9]|[1-9]| [1-9])   *)
(*   \s+(2[0-3]|[0-1]\d|\d):([0-5]\d|\d):(6[0-1]|[0-5]\d|\d)               *)
(* matches it at the start of the text (first match in the order of the    *)
(* alternatives, backtracking over them), rejects text left over after the *)
(* match, and then builds the datetime, which rejects a year, day or       *)
(* second out of range.  Every rejection is a ValueError.                  *)
(***************************************************************************)
\* the character at position p, "" past the end
At(s, p) == IF 1 <= p /\ p <= Len(s) THEN s[p] ELSE ""

InRange(c, lo, hi) == IsDigit(c) /\ lo <= DigitVal(c) /\ DigitVal(c) <= hi

\* int() of the len characters of s from p (a leading space is skipped)
RECURSIVE NumVal(_, _, _)
NumVal(s, p, len) ==
    IF len = 0 THEN 0
    ELSE LET c == s[p + len - 1]
         IN  IF IsDigit(c) THEN NumVal(s, p, len - 1) * 10 + DigitVal(c)
             ELSE NumVal(s, p, len - 1)

\* the lengths of the alternatives of a directive that match at p, in the
\* order the regular expression tries them
Alts_m(s, p) ==
    (IF At(s, p) = "1" /\ InRange(At(s, p + 1), 0, 2) THEN <<2>> ELSE <<>>)
    \o (IF At(s, p) = "0" /\ InRange(At(s, p + 1), 1, 9) THEN <<2>> ELSE <<>>)
    \o (IF InRange(At(s, p), 1, 9) THEN <<1>> ELSE <<>>)

Alts_d(s, p) ==
    (IF At(s, p) = "3" /\ InRange(At(s, p + 1), 0, 1) THEN <<2>> ELSE <<>>)
    \o (IF InRange(At(s, p), 1, 2) /\ IsDigit(At(s, p + 1)) THEN <<2>> ELSE <<>>)
    \o (IF At(s, p) = "0" /\ InRange(At(s, p + 1), 1, 9) THEN <<2>> ELSE <<>>)
    \o (IF InRange(At(s, p), 1, 9) THEN <<1>> ELSE <<>>)
    \o (IF At(s, p) = " " /\ InRange(At(s, p + 1), 1, 9) THEN <<2>> ELSE <<>>)

Alts_H(s, p) ==
    (IF At(s, p) = "2" /\ InRange(At(s, p + 1), 0, 3) THEN <<2>> ELSE <<>>)
    \o (IF InRange(At(s, p), 0, 1) /\ IsDigit(At(s, p + 1)) THEN <<2>> ELSE <<>>)
    \o (IF IsDigit(At(s, p)) THEN <<1>> ELSE <<>>)

Alts_M(s, p) ==
    (IF InRange(At(s, p), 0, 5) /\ IsDigit(At(s, p + 1)) THEN <<2>> ELSE <<>>)
    \o (IF IsDigit(At(s, p)) THEN <<1>> ELSE <<>>)

Alts_S(s, p) ==
    (IF At(s, p) = "6" /\ InRange(At(s, p + 1), 0, 1) THEN <<2>> ELSE <<>>)
    \o (IF InRange(At(s, p), 0, 5) /\ IsDigit(At(s, p + 1)) THEN <<2>> ELSE <<>>)
    \o (IF IsDigit(At(s, p)) THEN <<1>> ELSE <<>>)

\* the run of whitespace at p, longest first (\s+ is greedy)
RECURSIVE SpaceRuns(_, _, _)
SpaceRuns(s, p, n) ==
    IF IsSpace(At(s, p + n)) THEN SpaceRuns(s, p, n + 1) \o <<n + 1>> ELSE <<>>

\* the items of the compiled expression, in order
Pattern == <<"Y", ":", "m", ":", "d", "ws", "H", ":", "M", ":", "S">>

\* the lengths item can match at p, in the order the matcher tries them
ItemLens(item, s, p) ==
    CASE item = "Y"  -> IF \A i \in 0..3 : IsDigit(At(s, p + i)) THEN <<4>> ELSE <<>>
      [] item = ":"  -> IF At(s, p) = ":" THEN <<1>> ELSE <<>>
      [] item = "ws" -> SpaceRuns(s, p, 0)
      [] item = "m"  -> Alts_m(s, p)
      [] item = "d"  -> Alts_d(s, p)
      [] item = "H"  -> Alts_H(s, p)
      [] item = "M"  -> Alts_M(s, p)
      [] item = "S"  -> Alts_S(s, p)

\* re.match from item k on at position p: [ok, ends], ends the position
\* after each of the items k.. of the first match, backtracking over lens
\* from its i-th length on
RECURSIVE MatchFrom(_, _, _, _, _)
MatchFrom(s, p, k, lens, i) ==
    IF k > Len(Pattern) THEN [ok |-> TRUE, ends |-> <<>>]
    ELSE IF i > Len(lens) THEN [ok |-> FALSE, ends |-> <<>>]
    ELSE LET q == p + lens[i]
             next == IF k < Len(Pattern) THEN ItemLens(Pattern[k + 1], s, q) ELSE <<>>
             r == MatchFrom(s, q, k + 1, next, 1)
         IN  IF r.ok THEN [ok |-> TRUE, ends |-> <<q>> \o r.ends]
             ELSE MatchFrom(s, p, k, lens, i + 1)

\* the number an item of the match stands for
Field(s, ends, k) == NumVal(s, ends[k - 1], ends[k] - ends[k - 1])

ZeroDatetime ==
    [year |-> MINYEAR, month |-> 1, day |-> 1,
     hour |-> 0, minute |-> 0, second |-> 0, microsecond |-> 0]

\* ExifEditor.parse_datetime: [ok |-> FALSE] is ValueError
parse_datetime(dt_str) ==
    LET r == MatchFrom(dt_str, 1, 1, ItemLens(Pattern[1], dt_str, 1), 1)
        e == r.ends
        Y == NumVal(dt_str, 1, 4)
        m == Field(dt_str, e, 3)
        d == Field(dt_str, e, 5)
        S == Field(dt_str, e, 11)
    IN  IF /\ r.ok
           /\ e[Len(e)] = Len(dt_str) + 1
           /\ MINYEAR <= Y /\ Y <= MAXYEAR
           /\ d <= DaysInMonth(Y, m)
           /\ S <= 59
        THEN [ok |-> TRUE,
              dt |-> [year |-> Y, month |-> m, day |-> d,
                      hour |-> Field(dt_str, e, 7), minute |-> Field(dt_str, e, 9),
                      second |-> S, microsecond |-> 0]]
        ELSE [ok |-> FALSE, dt |-> ZeroDatetime]

\* ExifEditor.is_valid_datetime_format
is_valid_datetime_format(dt_str) == parse_datetime(dt_str).ok

\* ExifEditor.format_datetime: strftime('%Y:%m:%d %H:%M:%S'), which drops the
\* microseconds
format_datetime(dt_obj) ==
    Pad4(dt_obj.year) \o <<":">> \o Pad2(dt_obj.month) \o <<":">> \o Pad2(dt_obj.day)
    \o <<" ">> \o Pad2(dt_obj.hour) \o <<":">> \o Pad2(dt_obj.minute)
    \o <<":">> \o Pad2(dt_obj.second)


(***************************************************************************)
(* The tagging tool.  A file on disk is the record [dto, uc] of its two    *)
(* tag values as text; the empty text is a tag that is not set.  Each      *)
(* invocation of the tool ends in one of three ways: "ok" (return code 0,  *)
(* the effect applied), "fail" (a non-zero return code, or an error when   *)
(* starting the process that _run_exiftool reports as return code 1; the   *)
(* file is left as it was) and "raise" (the tool's command is not found:   *)
(* _run_exiftool re-raises FileNotFoundError).                             *)
(***************************************************************************)
Outcomes == {"ok", "fail", "raise"}

TagLine(tag, value) ==
    IF value = <<>> THEN <<>> ELSE tag \o <<":", " ">> \o value \o <<"\n">>

\* what the tool prints for -s -s -DateTimeOriginal -UserComment: one line
\* 'Tag: value' for each tag that is set, in the order asked for;
\* _run_exiftool strips the text
ReadStdout(f) ==
    strip(TagLine(TagDateTimeOriginal, f.dto) \o TagLine(TagUserComment, f.uc))

\* one invocation as the log keeps it: the file, the operation ("access" is
\* the os.access check, the others run the tool), how it ended and, for the
\* combined write, the two values written
Call(i, op, rc, dt, uc) == [file |-> i, op |-> op, rc |-> rc, dt |-> dt, uc |-> uc]

(***************************************************************************)
(* class ExifEditor.  An instance is the record                            *)
(* [file, date_time_original, user_comment, writable, metadata_read];      *)
(* file is the position of its path in the listing.  Each method is an     *)
(* operator from the instance, the file on disk and the outcomes of the    *)
(* environment to [ed, f, calls, ret, raised]: the instance and the file   *)
(* afterwards, the invocations issued, the value returned, and whether an  *)
(* exception left the method instead.                                      *)
(***************************************************************************)
NewEditor(i) ==
    [file |-> i, date_time_original |-> None, user_comment |-> None,
     writable |-> None, metadata_read |-> FALSE]

Result(ed, f, calls, ret, raised) ==
    [ed |-> ed, f |-> f, calls |-> calls, ret |-> ret, raised |-> raised]

\* metadata.get(tag) over the parsed lines: the value of the last line
\* 'tag: value' (both stripped), None when no line names the tag
RECURSIVE MetadataGet(_, _)
MetadataGet(lines, tag) ==
    IF lines = <<>> THEN None
    ELSE LET line == lines[Len(lines)]
             n    == FindColonSpace(line, 1)
         IN  IF n > 0 /\ strip(SubSeq(line, 1, n - 1)) = tag
             THEN Some(strip(SubSeq(line, n + 2, Len(line))))
             ELSE MetadataGet(SubSeq(lines, 1, Len(lines) - 1), tag)

\* metadata.get('UserComment', '')
CommentOrEmpty(comment) == IF comment = None THEN Some(<<>>) ELSE comment

\* read_metadata once the tool has returned code 0 with these lines
StoreMetadata(ed, lines) ==
    [ed EXCEPT !.date_time_original = MetadataGet(lines, TagDateTimeOriginal),
               !.user_comment = CommentOrEmpty(MetadataGet(lines, TagUserComment)),
               !.metadata_read = TRUE]

\* a read_metadata that asks the tool again although the metadata was read
ReadMetadataAgain(ed, f, out) ==
    IF out = "raise"
    THEN Result(ed, f, <<Call(ed.file, "read", out, <<>>, <<>>)>>, FALSE, TRUE)
    ELSE IF out = "fail"
    THEN Result(ed, f, <<Call(ed.file, "read", out, <<>>, <<>>)>>, FALSE, FALSE)
    ELSE Result(StoreMetadata(ed, splitlines(ReadStdout(f))), f,
                <<Call(ed.file, "read", out, <<>>, <<>>)>>, TRUE, FALSE)

\* out is how the tool's invocation ends
read_metadata(ed, f, out) ==
    IF ed.metadata_read THEN Result(ed, f, <<>>, TRUE, FALSE)
    ELSE IF out = "raise"
    THEN Result(ed, f, <<Call(ed.file, "read", out, <<>>, <<>>)>>, FALSE, TRUE)
    ELSE IF out = "fail"
    THEN Result(ed, f, <<Call(ed.file, "read", out, <<>>, <<>>)>>, FALSE, FALSE)
    ELSE Result(StoreMetadata(ed, splitlines(ReadStdout(f))), f,
                <<Call(ed.file, "read", out, <<>>, <<>>)>>, TRUE, FALSE)

\* what a property returns after its read_metadata call r: [ed, f, calls,
\* raised, val], val the value returned
PropertyResult(r, val) ==
    [ed |-> r.ed, f |-> r.f, calls |-> r.calls, raised |-> r.raised, val |-> val]

DateTimeOriginalOf(r) == PropertyResult(r, r.ed.date_time_original)

\* a user_comment that returns the cached value as it is
UserCommentRaw(r) == PropertyResult(r, r.ed.user_comment)

UserCommentOf(r) ==
    PropertyResult(r, IF r.ed.user_comment # None THEN r.ed.user_comment ELSE Some(<<>>))

\* the property date_time_original
date_time_original(ed, f, out) == DateTimeOriginalOf(read_metadata(ed, f, out))

\* the property user_comment
user_comment(ed, f, out) == UserCommentOf(read_metadata(ed, f, out))

\* an is_writable that checks again although the flag is known
IsWritableUnmemoized(ed, f, access, out) ==
    IF ~access
    THEN Result([ed EXCEPT !.writable = Some(FALSE)], f,
                <<Call(ed.file, "access", "fail", <<>>, <<>>)>>, FALSE, FALSE)
    ELSE IF out = "raise"
    THEN Result(ed, f,
                <<Call(ed.file, "access", "ok", <<>>, <<>>),
                  Call(ed.file, "probe", out, <<>>, <<>>)>>, FALSE, TRUE)
    ELSE IF out = "ok"
    THEN Result([ed EXCEPT !.writable = Some(TRUE)], [f EXCEPT !.uc = <<>>],
                <<Call(ed.file, "access", "ok", <<>>, <<>>),
                  Call(ed.file, "probe", out, <<>>, <<>>)>>, TRUE, FALSE)
    ELSE Result([ed EXCEPT !.writable = Some(FALSE)], f,
                <<Call(ed.file, "access", "ok", <<>>, <<>>),
                  Call(ed.file, "probe", out, <<>>, <<>>)>>, FALSE, FALSE)

\* access is what os.access(path, W_OK) answers, out how the trial write ends
is_writable(ed, f, access, out) ==
    IF ed.writable # None THEN Result(ed, f, <<>>, ed.writable[1], FALSE)
    ELSE IF ~access
    THEN Result([ed EXCEPT !.writable = Some(FALSE)], f,
                <<Call(ed.file, "access", "fail", <<>>, <<>>)>>, FALSE, FALSE)
    ELSE IF out = "raise"
    THEN Result(ed, f,
                <<Call(ed.file, "access", "ok", <<>>, <<>>),
                  Call(ed.file, "probe", out, <<>>, <<>>)>>, FALSE, TRUE)
    ELSE IF out = "ok"
    THEN Result([ed EXCEPT !.writable = Some(TRUE)], [f EXCEPT !.uc = <<>>],
                <<Call(ed.file, "access", "ok", <<>>, <<>>),
                  Call(ed.file, "probe", out, <<>>, <<>>)>>, TRUE, FALSE)
    ELSE Result([ed EXCEPT !.writable = Some(FALSE)], f,
                <<Call(ed.file, "access", "ok", <<>>, <<>>),
                  Call(ed.file, "probe", out, <<>>, <<>>)>>, FALSE, FALSE)

\* new_comment
JoinComment(current_comment, comment_addition) ==
    current_comment
        \o (IF current_comment # <<>> /\ comment_addition # <<>> THEN <<" ">> ELSE <<>>)
        \o comment_addition

\* a combined write that stores the new values in the instance whether or
\* not the tool accepted them
CombinedWriteAlwaysCaching(ed, f, calls, new_datetime_str, new_comment, out) ==
    Result([ed EXCEPT !.date_time_original = Some(new_datetime_str),
                      !.user_comment = Some(new_comment)],
           IF out = "ok" THEN [dto |-> new_datetime_str, uc |-> new_comment] ELSE f,
           calls \o <<Call(ed.file, "commit", out, new_datetime_str, new_comment)>>,
           out = "ok", out = "raise")

\* update_datetime_and_comment from the combined write on: calls are the
\* invocations issued before it, out is how the write ends
CombinedWrite(ed, f, calls, new_datetime_str, new_comment, out) ==
    IF out = "raise"
    THEN Result(ed, f,
                calls \o <<Call(ed.file, "commit", out, new_datetime_str, new_comment)>>,
                FALSE, TRUE)
    ELSE IF out = "ok"
    THEN Result([ed EXCEPT !.date_time_original = Some(new_datetime_str),
                           !.user_comment = Some(new_comment)],
                [dto |-> new_datetime_str, uc |-> new_comment],
                calls \o <<Call(ed.file, "commit", out, new_datetime_str, new_comment)>>,
                TRUE, FALSE)
    ELSE Result(ed, f,
                calls \o <<Call(ed.file, "commit", out, new_datetime_str, new_comment)>>,
                FALSE, FALSE)

\* update_datetime_and_comment after its read_metadata call r; the property
\* user_comment it then reads finds the metadata read
UpdateAfterRead(calls, r, new_datetime_str, comment_addition, env) ==
    IF r.raised \/ ~r.ret
    THEN Result(r.ed, r.f, calls \o r.calls, FALSE, r.raised)
    ELSE CombinedWrite(r.ed, r.f, calls \o r.calls, new_datetime_str,
                       JoinComment(UserCommentOf(r).val[1], comment_addition),
                       env.commit)

\* an update that goes on to the write whatever is_writable returned
UpdateIgnoringWritable(w, new_datetime_str, comment_addition, env) ==
    IF w.raised
    THEN Result(w.ed, w.f, w.calls, FALSE, w.raised)
    ELSE UpdateAfterRead(w.calls, read_metadata(w.ed, w.f, env.read),
                         new_datetime_str, comment_addition, env)

\* update_datetime_and_comment after its is_writable call w
UpdateAfterWritable(w, new_datetime_str, comment_addition, env) ==
    IF w.raised \/ ~w.ret
    THEN Result(w.ed, w.f, w.calls, FALSE, w.raised)
    ELSE UpdateAfterRead(w.calls, read_metadata(w.ed, w.f, env.read),
                         new_datetime_str, comment_addition, env)

\* env gives the outcomes of the environment: [access, probe, read, commit]
update_datetime_and_comment(ed, f, new_datetime_str, comment_addition, env) ==
    UpdateAfterWritable(is_writable(ed, f, env.access, env.probe),
                        new_datetime_str, comment_addition, env)

(***************************************************************************)
(* Inputs of the model.                                                    *)
(***************************************************************************)
Start2023 == <<"2","0","2","3",":","1","0",":","2","6"," ","1","0",":","0","0",":","0","0">>

Start2024 == <<"2","0","2","4",":","0","1",":","0","1"," ","0","0",":","0","0",":","0","0">>

StartLast == <<"9","9","9","9",":","1","2",":","3","1"," ","2","3",":","5","9",":","5","9">>

StartMonth13 == <<"2","0","2","3",":","1","3",":","0","1"," ","0","0",":","0","0",":","0","0">>

StartUnpadded == <<"2","0","2","3",":","1",":","5"," ","1",":","2",":","3">>

StartTrailing == <<"2","0","2","3",":","1","0",":","2","6"," ","1","0",":","0","0",":","0","0","x">>

StartDateOnly == <<"2","0","2","3",":","1","0",":","2","6">>

\* the command lines tried: start_time and interval; the interval is the
\* float argument as [finite, us]: whether it is a finite number, and its
\* value in microseconds
CommandLines ==
    { [start_time |-> Start2023,    interval |-> [finite |-> TRUE,  us |-> 30000000]],
      [start_time |-> Start2024,    interval |-> [finite |-> TRUE,  us |-> -5000000]],
      [start_time |-> Start2023,    interval |-> [finite |-> TRUE,  us |-> 1500000]],
      [start_time |-> StartLast,    interval |-> [finite |-> TRUE,  us |-> 30000000]],
      [start_time |-> StartMonth13, interval |-> [finite |-> TRUE,  us |-> 30000000]],
      [start_time |-> StartUnpadded, interval |-> [finite |-> TRUE, us |-> 30000000]],
      [start_time |-> StartTrailing, interval |-> [finite |-> TRUE, us |-> 30000000]],
      [start_time |-> StartDateOnly, interval |-> [finite |-> TRUE, us |-> 30000000]],
      [start_time |-> Start2023,    interval |-> [finite |-> FALSE, us |-> 0]] }

\* the files tried: one with no tags, one with a canonical timestamp and an
\* annotation, one with a timestamp that is no canonical timestamp and an
\* annotation that starts with a blank
FileKinds ==
    << [dto |-> <<>>, uc |-> <<>>],
       [dto |-> <<"2","0","1","9",":","0","7",":","0","4"," ","0","8",":","1","5",":","3","0">>,
        uc  |-> <<"p","r","i","o","r"," ","t","e","x","t">>],
       [dto |-> <<"n","o","t"," ","a"," ","d","a","t","e">>,
        uc  |-> <<" ","x">>] >>

\* the listing of n files that starts at kind r + 1 and cycles through the kinds
Listing(n, r) == [i \in 1..n |-> FileKinds[((i - 1 + r) % Len(FileKinds)) + 1]]

\* str(int(time.time())), the run identifier
FixId == <<"1","2","3">>

(***************************************************************************)
(* State.                                                                  *)
(***************************************************************************)
VARIABLES
    pc,               \* where the program is: "main", "process_files", "loop",
                      \* "done", "exit0", "exit1", "crashed"; "client" and
                      \* "client_end" when a caller uses ExifEditor directly
    args,             \* the parsed command line: start_time, interval, dry_run, dir_ok
    files,            \* the files on disk in the order of the listing
    files0,           \* the files as they were before the run
    start_dt,         \* process_files: start_dt
    interval_delta,   \* process_files: interval_delta
    index,            \* process_files: files handled so far (the loop's position)
    file_index,       \* process_files: file_index
    processed_count,  \* process_files: processed_count
    skipped_count,    \* process_files: skipped_count
    error_count,      \* process_files: error_count
    report,           \* what process_files logged for each file handled
    log,              \* the invocations issued, in order
    editor,           \* the ExifEditor last constructed
    ret,              \* the result of the caller's last call on editor
    ncalls            \* the calls the caller has made

vars == <<pc, args, files, files0, start_dt, interval_delta, index, file_index,
          processed_count, skipped_count, error_count, report, log, editor, ret, ncalls>>

NoEditor == NewEditor(0)

NoRet == [op |-> "none", ok |-> FALSE, val |-> None, raised |-> FALSE]

NoArgs ==
    [start_time |-> Start2023, interval |-> [finite |-> TRUE, us |-> 0],
     dry_run |-> FALSE, dir_ok |-> TRUE]

InitCommon ==
    /\ files0 = files
    /\ start_dt = ZeroDatetime
    /\ interval_delta = Timedelta(0, 0)
    /\ index = 0
    /\ file_index = 0
    /\ processed_count = 0
    /\ skipped_count = 0
    /\ error_count = 0
    /\ report = <<>>
    /\ log = <<>>
    /\ editor = NoEditor
    /\ ret = NoRet
    /\ ncalls = 0

\* the program is started from the command line
InitMain ==
    /\ pc = "main"
    /\ \E c \in CommandLines, dry \in BOOLEAN, ok \in BOOLEAN :
          args = [start_time |-> c.start_time, interval |-> c.interval,
                  dry_run |-> dry, dir_ok |-> ok]
    /\ \E n \in 0..MaxFiles, r \in 0..(Len(FileKinds) - 1) : files = Listing(n, r)
    /\ InitCommon

\* a caller is about to use ExifEditor on one file
InitClient ==
    /\ pc = "client"
    /\ args = NoArgs
    /\ \E r \in 0..(Len(FileKinds) - 1) : files = Listing(1, r)
    /\ InitCommon

Init == InitMain \/ InitClient


(***************************************************************************)
(* timestamper.py: main, parse_arguments, process_files.                   *)
(***************************************************************************)
\* main up to the call of process_files: parse_arguments validates the start
\* time and the directory (sys.exit(1)), the start time is parsed, the
\* directory is listed (sys.exit(0) when it holds no files)
Main ==
    /\ pc = "main"
    /\ pc' = IF ~is_valid_datetime_format(args.start_time) THEN "exit1"
             ELSE IF ~args.dir_ok THEN "exit1"
             ELSE IF ~parse_datetime(args.start_time).ok THEN "exit1"
             ELSE IF files = <<>> THEN "exit0"
             ELSE "process_files"
    /\ start_dt' = IF pc' = "process_files"
                   THEN parse_datetime(args.start_time).dt ELSE start_dt
    /\ UNCHANGED <<args, files, files0, interval_delta, index, file_index,
                   processed_count, skipped_count, error_count, report, log,
                   editor, ret, ncalls>>

\* process_files before its loop: the counters, and
\* timedelta(seconds=interval_sec), which raises for a float that is not finite
EnterProcessFiles ==
    /\ pc = "process_files"
    /\ processed_count' = 0
    /\ skipped_count' = 0
    /\ error_count' = 0
    /\ file_index' = 0
    /\ index' = 0
    /\ IF args.interval.finite
       THEN /\ interval_delta' = Timedelta(0, args.interval.us)
            /\ pc' = "loop"
       ELSE /\ interval_delta' = interval_delta
            /\ pc' = "crashed"
    /\ UNCHANGED <<args, files, files0, start_dt, report, log, editor, ret, ncalls>>

\* a slot taken from the position in the listing
SlotByPosition(position, successes) == position

\* the multiplier of interval_delta for the file being handled: file_index,
\* not the position index
Slot(position, successes) == successes

\* an original_dt_str that is "None" for a value that is no canonical timestamp
OriginalDtStrParsed(ed) ==
    IF Truthy(ed.date_time_original) /\ is_valid_datetime_format(ed.date_time_original[1])
    THEN ed.date_time_original[1] ELSE StrNone

\* original_dt_str: the cached original timestamp, "None" when it is None or ''
OriginalDtStr(ed) ==
    IF Truthy(ed.date_time_original) THEN ed.date_time_original[1] ELSE StrNone

\* fix_comment
FixComment(fix_id, original_dt_str, new_datetime_str) ==
    CommentPrefix \o fix_id \o <<"[">> \o original_dt_str
        \o <<" ", "-", ">", " ">> \o new_datetime_str \o <<"]">>

\* what the loop logs for one file: how it ended, and the new timestamp and
\* the comment when they were computed
Line(class, new_dt, comment) == [class |-> class, new_dt |-> new_dt, comment |-> comment]

\* what one iteration of the loop does: the accessor and the file
\* afterwards, the invocations issued and the line logged
Done(ed, f, calls, line) == [ed |-> ed, f |-> f, calls |-> calls, line |-> line]

\* the iteration after the call u of update_datetime_and_comment
AfterUpdate(calls, u, new_datetime_str, fix_comment) ==
    Done(u.ed, u.f, calls \o u.calls,
         Line(IF u.raised THEN "not_found"
              ELSE IF u.ret THEN "updated" ELSE "update_failed",
              new_datetime_str, fix_comment))

\* the iteration once the new timestamp and the comment are built
SimulateOrCommit(ed, f, calls, dry_run, env, new_datetime_str, fix_comment) ==
    IF dry_run
    THEN Done(ed, f, calls, Line("dry_run", new_datetime_str, fix_comment))
    ELSE AfterUpdate(calls,
                     update_datetime_and_comment(ed, f, new_datetime_str, fix_comment, env),
                     new_datetime_str, fix_comment)

\* the iteration from new_datetime_str on
WithNewDatetime(ed, f, calls, dry_run, env, new_datetime_str) ==
    SimulateOrCommit(ed, f, calls, dry_run, env, new_datetime_str,
                     FixComment(FixId, OriginalDtStr(ed), new_datetime_str))

\* the iteration after current_dt is computed; OverflowError is caught by
\* 'except Exception'
WithCurrentDt(ed, f, calls, dry_run, env, current) ==
    IF ~current.ok
    THEN Done(ed, f, calls, Line("exception", <<>>, <<>>))
    ELSE WithNewDatetime(ed, f, calls, dry_run, env, format_datetime(current.dt))

\* the iteration from the computation of the new timestamp on
Assign(ed, f, calls, dry_run, env) ==
    WithCurrentDt(ed, f, calls, dry_run, env,
                  DatetimeAdd(start_dt,
                              TimedeltaMul(interval_delta, Slot(ed.file - 1, file_index))))

\* the iteration after the call w of is_writable
AfterWritable(calls, w, env) ==
    IF w.raised
    THEN Done(w.ed, w.f, calls \o w.calls, Line("not_found", <<>>, <<>>))
    ELSE IF ~w.ret
    THEN Done(w.ed, w.f, calls \o w.calls, Line("skip_write", <<>>, <<>>))
    ELSE Assign(w.ed, w.f, calls \o w.calls, FALSE, env)

\* an iteration that checks writability in a dry run too, and then commits
AfterReadAlwaysWriting(r, dry_run, env) ==
    IF r.raised
    THEN Done(r.ed, r.f, r.calls, Line("not_found", <<>>, <<>>))
    ELSE IF ~r.ret
    THEN Done(r.ed, r.f, r.calls, Line("skip_read", <<>>, <<>>))
    ELSE AfterWritable(r.calls, is_writable(r.ed, r.f, env.access, env.probe), env)

\* an iteration that goes on to the writability check although the read failed
AfterReadIgnoringFailure(r, dry_run, env) ==
    IF r.raised
    THEN Done(r.ed, r.f, r.calls, Line("not_found", <<>>, <<>>))
    ELSE IF dry_run
    THEN Assign(r.ed, r.f, r.calls, TRUE, env)
    ELSE AfterWritable(r.calls, is_writable(r.ed, r.f, env.access, env.probe), env)

\* the iteration after the call r of read_metadata
AfterRead(r, dry_run, env) ==
    IF r.raised
    THEN Done(r.ed, r.f, r.calls, Line("not_found", <<>>, <<>>))
    ELSE IF ~r.ret
    THEN Done(r.ed, r.f, r.calls, Line("skip_read", <<>>, <<>>))
    ELSE IF dry_run
    THEN Assign(r.ed, r.f, r.calls, TRUE, env)
    ELSE AfterWritable(r.calls, is_writable(r.ed, r.f, env.access, env.probe), env)

\* the body of the loop for the file at position i, f on disk; env gives the
\* outcomes of the environment: [isfile, read, access, probe, commit].
\* ExifEditor(file_path) raises FileNotFoundError when the path is no file.
LoopBody(i, f, dry_run, env) ==
    IF ~env.isfile
    THEN Done(editor, f, <<>>, Line("not_found", <<>>, <<>>))
    ELSE AfterRead(read_metadata(NewEditor(i), f, env.read), dry_run, env)

\* the outcomes of the environment for one file.  An outcome that the loop
\* body does not come to ask for is fixed, so that each course of events is
\* listed once
LoopEnvs(dry_run) ==
    { env \in [isfile : BOOLEAN, read : Outcomes, access : BOOLEAN,
               probe : Outcomes, commit : Outcomes] :
        LET asksRead   == env.isfile
            asksAccess == asksRead /\ env.read = "ok" /\ ~dry_run
            asksProbe  == asksAccess /\ env.access
            asksCommit == asksProbe /\ env.probe = "ok"
        IN  /\ (~asksRead => env.read = "ok")
            /\ (~asksAccess => env.access)
            /\ (~asksProbe => env.probe = "ok")
            /\ (~asksCommit => env.commit = "ok") }

\* a processed_count that leaves out the simulated files
CountsOnlyUpdated(class) == class = "updated"

\* the counters each way of ending a file adds to
CountsProcessed(class) == class \in {"updated", "dry_run"}

\* a skipped_count that also takes the files whose update failed
CountsSkippedAndFailed(class) == class \in {"skip_read", "skip_write", "update_failed"}

CountsSkipped(class) == class \in {"skip_read", "skip_write"}

CountsError(class) == class \in {"update_failed", "not_found", "exception"}

\* a file_index that also advances when the update fails
AdvancesOnFailure(class) == class \in {"updated", "update_failed"}

AdvancesFileIndex(class) == class = "updated"

\* a loop without 'except FileNotFoundError': the exception leaves process_files
UncaughtNotFound(class) == IF class = "not_found" THEN "crashed" ELSE "loop"

\* where the program is after an iteration: every exception raised in the
\* body is caught by 'except FileNotFoundError' or 'except Exception', so
\* the loop goes on
AfterIteration(class) == "loop"

\* the loop's variables after an iteration that did b
Account(b) ==
    /\ pc' = AfterIteration(b.line.class)
    /\ files' = [files EXCEPT ![index + 1] = b.f]
    /\ editor' = b.ed
    /\ log' = log \o b.calls
    /\ report' = Append(report, b.line)
    /\ processed_count' = processed_count + (IF CountsProcessed(b.line.class) THEN 1 ELSE 0)
    /\ skipped_count' = skipped_count + (IF CountsSkipped(b.line.class) THEN 1 ELSE 0)
    /\ error_count' = error_count + (IF CountsError(b.line.class) THEN 1 ELSE 0)
    /\ file_index' = file_index + (IF AdvancesFileIndex(b.line.class) THEN 1 ELSE 0)

\* one iteration of the loop of process_files
ProcessFile ==
    /\ pc = "loop"
    /\ index < Len(files)
    /\ \E env \in LoopEnvs(args.dry_run) :
          Account(LoopBody(index + 1, files[index + 1], args.dry_run, env))
    /\ index' = index + 1
    /\ UNCHANGED <<args, files0, start_dt, interval_delta, ret, ncalls>>

\* the loop is over: the summary is logged and main prints its last lines
Summary ==
    /\ pc = "loop"
    /\ index = Len(files)
    /\ pc' = "done"
    /\ UNCHANGED <<args, files, files0, start_dt, interval_delta, index, file_index,
                   processed_count, skipped_count, error_count, report, log,
                   editor, ret, ncalls>>


(***************************************************************************)
(* A caller using ExifEditor directly: it constructs one instance and then *)
(* calls its methods and reads its properties in any order.                *)
(***************************************************************************)
\* the arguments a caller passes to update_datetime_and_comment
ClientTimestamps == {Start2024}

ClientAdditions == {<<>>, <<"e","d","i","t">>}

\* ExifEditor(path): FileNotFoundError when the path is no regular file
Construct ==
    /\ pc = "client"
    /\ editor = NoEditor
    /\ \E isfile \in BOOLEAN :
          IF isfile
          THEN /\ editor' = NewEditor(1)
               /\ pc' = pc
               /\ ret' = [NoRet EXCEPT !.op = "init"]
          ELSE /\ editor' = editor
               /\ pc' = "client_end"
               /\ ret' = [NoRet EXCEPT !.op = "init", !.raised = TRUE]
    /\ UNCHANGED <<args, files, files0, start_dt, interval_delta, index, file_index,
                   processed_count, skipped_count, error_count, report, log, ncalls>>

\* the caller's state after the call op that did r and returned ok / val
Returned(op, r, ok, val) ==
    /\ editor' = r.ed
    /\ files' = [files EXCEPT ![editor.file] = r.f]
    /\ log' = log \o r.calls
    /\ ret' = [op |-> op, ok |-> ok /\ ~r.raised,
               val |-> IF r.raised THEN None ELSE val, raised |-> r.raised]
    /\ ncalls' = ncalls + 1
    /\ UNCHANGED <<pc, args, files0, start_dt, interval_delta, index, file_index,
                   processed_count, skipped_count, error_count, report>>

ReturnedBool(op, r) == Returned(op, r, r.ret, None)

ReturnedValue(op, r) == Returned(op, r, TRUE, r.val)

CanCall == pc = "client" /\ editor # NoEditor /\ ncalls < MaxCalls

CallReadMetadata ==
    /\ CanCall
    /\ \E out \in Outcomes :
          ReturnedBool("read_metadata", read_metadata(editor, files[editor.file], out))

GetDateTimeOriginal ==
    /\ CanCall
    /\ \E out \in Outcomes :
          ReturnedValue("date_time_original",
                        date_time_original(editor, files[editor.file], out))

GetUserComment ==
    /\ CanCall
    /\ \E out \in Outcomes :
          ReturnedValue("user_comment", user_comment(editor, files[editor.file], out))

CallIsWritable ==
    /\ CanCall
    /\ \E access \in BOOLEAN, out \in Outcomes :
          ReturnedBool("is_writable",
                       is_writable(editor, files[editor.file], access, out))

CallUpdate ==
    /\ CanCall
    /\ \E env \in [read : Outcomes, access : BOOLEAN, probe : Outcomes, commit : Outcomes],
          dt \in ClientTimestamps, addition \in ClientAdditions :
          ReturnedBool("update_datetime_and_comment",
                       update_datetime_and_comment(editor, files[editor.file],
                                                   dt, addition, env))

\* the steps of the program run from the command line
MainNext ==
    \/ Main
    \/ EnterProcessFiles
    \/ ProcessFile
    \/ Summary

\* the calls of a caller of ExifEditor
ClientNext ==
    \/ Construct
    \/ CallReadMetadata
    \/ GetDateTimeOriginal
    \/ GetUserComment
    \/ CallIsWritable
    \/ CallUpdate

Next == MainNext \/ ClientNext

Spec == Init /\ [][Next]_vars

\* main or process_files has a next step to take
Running == pc \in {"main", "process_files", "loop"}

\* a step of the running program as pc and index show it: every step of
\* main and process_files changes one of the two, and nothing else does
Executes ==
    /\ Running
    /\ pc' \in {"process_files", "loop", "done", "exit0", "exit1", "crashed"}
    /\ index' \in {index, index + 1}

\* the program run from the command line and scheduled until it ends: the
\* interpreter runs one statement after the other and every call to the
\* tool returns, so a program that has a next step takes it.  A step of
\* MainNext is possible in every state in which Running holds (Main,
\* EnterProcessFiles, and ProcessFile or Summary as index < Len(files) or
\* not), so this is the weak fairness of MainNext
FairSpec == InitMain /\ [][MainNext]_vars /\ WF_<<pc, index>>(Executes)

(***************************************************************************)
(* Properties.                                                             *)
(***************************************************************************)
\* process_files is running or has returned
InBatch == pc \in {"loop", "done"}

\* the invocations of kind op on the file at position j that ended rc
Invocations(j, op, rc) ==
    {n \in 1..Len(log) : log[n].file = j /\ log[n].op = op /\ log[n].rc = rc}

\* the combined write on file j succeeded
Committed(j) == Invocations(j, "commit", "ok") # {}

\* the files before position j whose combined write succeeded
CommittedBefore(j) == Cardinality({h \in 1..(j - 1) : Committed(h)})

\* the text of start + interval * k, from the command line
Stamp(k) ==
    format_datetime(
        DatetimeAdd(parse_datetime(args.start_time).dt,
                    TimedeltaMul(Timedelta(0, args.interval.us), k)).dt)

Stamp100030 == <<"2","0","2","3",":","1","0",":","2","6"," ","1","0",":","0","0",":","3","0">>

Stamp100100 == <<"2","0","2","3",":","1","0",":","2","6"," ","1","0",":","0","1",":","0","0">>

Stamp235955 == <<"2","0","2","3",":","1","2",":","3","1"," ","2","3",":","5","9",":","5","5">>

\* C1: in a batch that is not a dry run, every file whose commit succeeded
\* holds (and was written with) the timestamp start + interval * k, k the
\* number of files committed before it in the run, whatever the sign of the
\* interval and whatever its position; when no file was skipped or failed,
\* the file at position k + 1 holds start + interval * k.  The examples of
\* the specification are stated with their values.
C1_CommittedTimestamp ==
    InBatch /\ ~args.dry_run =>
        /\ \A j \in 1..Len(report) :
              Committed(j) =>
                /\ files[j].dto = Stamp(CommittedBefore(j))
                /\ \A n \in Invocations(j, "commit", "ok") :
                      log[n].dt = Stamp(CommittedBefore(j))
        /\ (\A j \in 1..Len(report) : Committed(j)) =>
              \A j \in 1..Len(report) : files[j].dto = Stamp(j - 1)
        /\ (args.start_time = Start2023 /\ args.interval.us = 30000000) =>
              \A j \in 1..Len(report) :
                 /\ (Committed(j) /\ CommittedBefore(j) = 0 => files[j].dto = Start2023)
                 /\ (Committed(j) /\ CommittedBefore(j) = 1 => files[j].dto = Stamp100030)
                 /\ (Committed(j) /\ CommittedBefore(j) = 2 => files[j].dto = Stamp100100)
        /\ (args.start_time = Start2024 /\ args.interval.us = -5000000) =>
              \A j \in 1..Len(report) :
                 Committed(j) /\ CommittedBefore(j) = 1 => files[j].dto = Stamp235955

\* C1 witness: the run of the specification's example has ended: the first
\* file committed, the second skipped at the writability probe, the third
\* committed and holding 10:00:30
C1_Witness ==
    /\ pc = "done" /\ ~args.dry_run /\ Len(report) = 3
    /\ args.start_time = Start2023 /\ args.interval.us = 30000000
    /\ Committed(1) /\ report[2].class = "skip_write" /\ Committed(3)
    /\ files[3].dto = Stamp100030

\* a successful combined write was issued in this step
CommitsInStep ==
    Cardinality({n \in (Len(log) + 1)..Len(log') :
                    log'[n].op = "commit" /\ log'[n].rc = "ok"})

\* C2: file_index grows by exactly 1 in an iteration whose commit succeeded
\* and is unchanged by every other iteration (read failure, probe failure,
\* commit failure, exception, dry-run simulation); so a file committed
\* right after a skipped or failed file gets the slot that file would have
\* had: the timestamp of the slot numbered by the commits before both, which
\* is the very timestamp computed for the failed file when one was computed.
C2_SuccessCounter ==
    /\ [][pc = "loop" => /\ file_index' = file_index + CommitsInStep
                         /\ (report' # report /\ report'[Len(report')].class # "updated"
                                => file_index' = file_index)]_vars
    /\ [](InBatch =>
            \A j \in 2..Len(report) :
               report[j].class = "updated" /\ report[j - 1].class # "updated" =>
                  /\ report[j].new_dt = Stamp(CommittedBefore(j - 1))
                  /\ (report[j - 1].new_dt # <<>> =>
                         report[j].new_dt = report[j - 1].new_dt))

\* C2 witness: a commit failed on the second file and the third file was
\* committed with the timestamp computed for the second
C2_Witness ==
    /\ InBatch /\ Len(report) = 3 /\ args.interval.us # 0
    /\ report[1].class = "updated"
    /\ report[2].class = "update_failed"
    /\ report[3].class = "updated"
    /\ file_index = 2
    /\ files[3].dto = report[2].new_dt


\* C3: a file that is not writable never reaches the combined write: every
\* combined write in the log comes after a successful trial write on the
\* same file and after no denied permission check and no failed trial
\* write on it; an accessor whose flag is not-writable has issued no
\* combined write; a file that process_files skipped as not writable got
\* none; and update_datetime_and_comment called on such an accessor
\* returned false.
C3_NotWritableNeverCommitted ==
    /\ \A n \in 1..Len(log) :
          log[n].op = "commit" =>
            /\ \E m \in 1..(n - 1) :
                  log[m].file = log[n].file /\ log[m].op = "probe" /\ log[m].rc = "ok"
            /\ \A m \in 1..(n - 1) :
                  log[m].file = log[n].file =>
                     /\ ~(log[m].op = "access" /\ log[m].rc = "fail")
                     /\ ~(log[m].op = "probe" /\ log[m].rc = "fail")
    /\ editor.writable = Some(FALSE) =>
          \A n \in 1..Len(log) : ~(log[n].file = editor.file /\ log[n].op = "commit")
    /\ InBatch =>
          \A j \in 1..Len(report) :
             report[j].class = "skip_write" =>
                \A n \in 1..Len(log) : ~(log[n].file = j /\ log[n].op = "commit")
    /\ (ret.op = "update_datetime_and_comment" /\ editor.writable = Some(FALSE)) => ~ret.ok

\* C3 witness: a caller has called update_datetime_and_comment on an
\* accessor that is not writable
C3_Witness ==
    /\ pc = "client"
    /\ ret.op = "update_datetime_and_comment"
    /\ editor.writable = Some(FALSE)
    /\ ~ret.ok /\ ~ret.raised

\* the invocations in the log are in the order of the listing
LogInOrder == \A m, n \in 1..Len(log) : m < n => log[m].file <= log[n].file

\* each operation was issued at most once on each file
OncePerFile ==
    \A m, n \in 1..Len(log) :
       log[m].file = log[n].file /\ log[m].op = log[n].op => m = n

\* C4: once its loop is entered process_files ends, and it ends having
\* handled every file of the listing exactly once and in order, whatever
\* happened to single files (a failed read, probe or commit, a file that is
\* gone when its accessor is constructed, the tool missing, an overflow of
\* the date): each iteration handles the next position and only it, and
\* there is one logged line for each position.
C4_EveryFileOnce ==
    /\ (pc = "loop") ~> (pc = "done" /\ index = Len(files) /\ Len(report) = Len(files))
    /\ [](InBatch => /\ Len(report) = index
                     /\ index <= Len(files)
                     /\ LogInOrder
                     /\ OncePerFile
                     /\ \A n \in 1..Len(log) : log[n].file <= index)
    /\ [][pc = "loop" => /\ pc' \in {"loop", "done"}
                         /\ (pc' = "loop" => index' = index + 1)
                         /\ (pc' = "done" => index = Len(files))
                         /\ \A n \in (Len(log) + 1)..Len(log') : log'[n].file = index + 1]_vars

\* C4 witness: a run has ended in which the first file raised
\* FileNotFoundError, the second was skipped and the third was committed
C4_Witness ==
    /\ pc = "done" /\ Len(files) = 3 /\ Len(report) = 3
    /\ report[1].class = "not_found"
    /\ report[2].class \in {"skip_read", "skip_write"}
    /\ report[3].class = "updated"

\* C5: in a dry run no write is issued to any file: the log holds reads
\* only (no permission check, no trial write, no combined write) and every
\* file on disk is as it was before the run.
C5_DryRunWritesNothing ==
    args.dry_run =>
        /\ \A n \in 1..Len(log) : log[n].op = "read"
        /\ files = files0

\* C5 witness: a dry run has ended that simulated a file holding an annotation
C5_Witness ==
    /\ pc = "done" /\ args.dry_run
    /\ \E j \in 1..Len(report) :
          report[j].class = "dry_run" /\ files0[j].uc # <<>> /\ files[j].uc = files0[j].uc

\* C6: at the end of a dry run processed_count is the number of files whose
\* metadata read succeeded and skipped_count the number whose read failed
\* (returned false); writability is never asked.
C6_DryRunCounts ==
    pc = "done" /\ args.dry_run =>
        /\ processed_count =
              Cardinality({n \in 1..Len(log) : log[n].op = "read" /\ log[n].rc = "ok"})
        /\ skipped_count =
              Cardinality({n \in 1..Len(log) : log[n].op = "read" /\ log[n].rc = "fail"})
        /\ \A n \in 1..Len(log) : log[n].op \notin {"access", "probe"}

\* C6 witness: a dry run has ended with two files simulated and one skipped
C6_Witness ==
    /\ pc = "done" /\ args.dry_run
    /\ processed_count = 2 /\ skipped_count = 1

\* the trial write on file j succeeded
Probed(j) == Invocations(j, "probe", "ok") # {}

\* C7: at the end of a batch that is not a dry run no file that held an
\* annotation before the run and whose trial write succeeded is left with
\* an empty annotation, whatever became of the combined write.
C7_BlankedAnnotationNeverLeft ==
    pc = "done" /\ ~args.dry_run =>
        \A j \in 1..Len(files) :
           Probed(j) /\ files0[j].uc # <<>> => files[j].uc # <<>>

\* the old timestamp of an edit, "None" for a file that had none
OldOrNone(dto) == IF dto = <<>> THEN StrNone ELSE dto

\* two texts joined by one space when the first is not empty
JoinedBySpace(prior, edit) == IF prior # <<>> THEN prior \o <<" ">> \o edit ELSE edit

\* C8: every file committed by a batch that is not a dry run holds the
\* annotation it held before the run, joined by one space (by nothing when
\* it was empty) with the edit AdjustedDateTime_<runId>[<old> -> <new>].
C8_AnnotationPreserved ==
    InBatch /\ ~args.dry_run =>
        \A j \in 1..Len(report) :
           report[j].class = "updated" =>
              files[j].uc =
                 JoinedBySpace(files0[j].uc,
                               FixComment(FixId, OldOrNone(files0[j].dto), files[j].dto))

\* C9: in a dry run over files that are all readable the timestamp reported
\* for the file at position k + 1 is start + interval * k.
C9_DryRunPreviewsSlots ==
    pc = "done" /\ args.dry_run /\ (\A j \in 1..Len(report) : report[j].class = "dry_run") =>
        \A j \in 1..Len(report) : report[j].new_dt = Stamp(j - 1)

\* the original timestamp of file j before the run is present and is no
\* canonical timestamp
Unparseable(j) == files0[j].dto # <<>> /\ ~is_valid_datetime_format(files0[j].dto)

\* C10 as stated: the edit built for a file whose original timestamp is
\* present and is no canonical timestamp records None as the old timestamp.
C10_UnparseableRecordedAsNone ==
    InBatch =>
        \A j \in 1..Len(report) :
           report[j].comment # <<>> /\ Unparseable(j) =>
              report[j].comment = FixComment(FixId, StrNone, report[j].new_dt)

\* C10 amended: the existing original timestamp is never parsed: the edit
\* built for a file records the value read from it, stripped, whether or not
\* it is a canonical timestamp, and None only when the value is absent or
\* empty; no file makes process_files end with an exception once a file
\* has been handled.
C10_RawValueRecorded ==
    /\ InBatch =>
          \A j \in 1..Len(report) :
             report[j].comment # <<>> =>
                report[j].comment =
                   FixComment(FixId, OldOrNone(strip(files0[j].dto)), report[j].new_dt)
    /\ pc = "crashed" => report = <<>>

\* C10 witness: a run has ended that committed a file whose original
\* timestamp was no canonical timestamp, and the edit records that value
C10_Witness ==
    /\ pc = "done"
    /\ \E j \in 1..Len(report) :
          /\ Unparseable(j)
          /\ report[j].class = "updated"
          /\ report[j].comment = FixComment(FixId, files0[j].dto, report[j].new_dt)
          /\ report[j].comment # FixComment(FixId, StrNone, report[j].new_dt)

\* the cached record of an instance
Cached(ed) == <<ed.date_time_original, ed.user_comment, ed.metadata_read>>

\* a combined write is issued in this step and the tool returns a failure status
CommitFailsInStep ==
    \E n \in (Len(log) + 1)..Len(log') : log'[n].op = "commit" /\ log'[n].rc = "fail"

\* the iteration of this step is counted as failed and as nothing else
CountedAsFailed ==
    /\ report'[Len(report')].class = "update_failed"
    /\ error_count' = error_count + 1
    /\ skipped_count' = skipped_count
    /\ processed_count' = processed_count
    /\ file_index' = file_index

\* C11 as stated: when the combined write fails update_datetime_and_comment
\* returns false and the cached record of the instance is what it was
\* before the call; process_files counts the file as failed, not skipped.
C11_CacheAsBeforeCall ==
    [][CommitFailsInStep =>
          /\ pc = "client" =>
                /\ ret'.op = "update_datetime_and_comment" /\ ~ret'.ok /\ ~ret'.raised
                /\ Cached(editor') = Cached(editor)
          /\ pc = "loop" => CountedAsFailed]_vars

\* C11 amended: when the combined write fails update_datetime_and_comment
\* returns false and the failed write stores nothing in the instance: the
\* cached record is what it was before the call when the metadata had been
\* read before the call, and otherwise what the call's own read_metadata
\* stored (read from the file as the call leaves it, after the trial write);
\* the file is as the read found it; process_files counts the file as
\* failed, not skipped, and its accessor keeps what its read stored.
C11_FailedWriteStoresNothing ==
    [][CommitFailsInStep =>
          /\ pc = "client" =>
                /\ ret'.op = "update_datetime_and_comment" /\ ~ret'.ok /\ ~ret'.raised
                /\ Cached(editor') =
                      IF editor.metadata_read THEN Cached(editor)
                      ELSE Cached(StoreMetadata(editor,
                                                splitlines(ReadStdout(files'[editor.file]))))
          /\ pc = "loop" =>
                /\ CountedAsFailed
                /\ Cached(editor') =
                      Cached(StoreMetadata(NewEditor(index + 1),
                                           splitlines(ReadStdout(files[index + 1]))))]_vars

\* C11 witness: a caller's update on an instance that had read the metadata
\* has failed at the combined write, and the instance still caches the
\* annotation it had read
C11_Witness ==
    /\ pc = "client"
    /\ ret.op = "update_datetime_and_comment" /\ ~ret.ok /\ ~ret.raised
    /\ Len(log) >= 2
    /\ log[1].op = "read" /\ log[1].rc = "ok"
    /\ log[Len(log)].op = "commit" /\ log[Len(log)].rc = "fail"
    /\ editor.metadata_read
    /\ editor.user_comment = Some(files0[1].uc) /\ files0[1].uc # <<>>

\* an invocation of kind op is issued in this step
IssuedInStep(op) == \E n \in (Len(log) + 1)..Len(log') : log'[n].op = op

\* C12: an instance has read the metadata exactly when a read on its file
\* has succeeded, and a read succeeds at most once for an instance; from
\* then on no call on the instance (read_metadata, the two properties,
\* is_writable, update_datetime_and_comment) issues a read, read_metadata
\* returns true, the instance stays read, and the cached values change only
\* in an update_datetime_and_comment that returns true after a successful
\* combined write.  In a batch each file is read at most once.
C12_ReadOnceThenCached ==
    /\ [](pc = "client" /\ editor # NoEditor =>
             /\ editor.metadata_read <=> Invocations(editor.file, "read", "ok") # {}
             /\ Cardinality(Invocations(editor.file, "read", "ok")) <= 1)
    /\ [](InBatch =>
             \A j \in 1..Len(files) :
                Cardinality({n \in 1..Len(log) : log[n].file = j /\ log[n].op = "read"}) <= 1)
    /\ [][pc = "client" /\ editor.metadata_read =>
             /\ ~IssuedInStep("read")
             /\ editor'.metadata_read
             /\ (ret'.op = "read_metadata" => ret'.ok /\ ~ret'.raised)
             /\ (Cached(editor') # Cached(editor) =>
                    /\ ret'.op = "update_datetime_and_comment" /\ ret'.ok
                    /\ CommitsInStep = 1)]_vars

\* C12 witness: a caller has made three calls, the last a read_metadata
\* that returned true, and the only invocation issued is the first read
C12_Witness ==
    /\ pc = "client" /\ ncalls = 3
    /\ ret.op = "read_metadata" /\ ret.ok
    /\ Len(log) = 1 /\ log[1].op = "read" /\ log[1].rc = "ok"

\* the trial writes the tool ran on file j (it returned a code)
ProbesRun(j) ==
    {n \in 1..Len(log) : log[n].file = j /\ log[n].op = "probe" /\ log[n].rc # "raise"}

\* C13: over the calls on one instance the tool runs the trial write at most
\* once; a trial write is issued only right after a permission check that
\* allowed writing and never after one that denied it, and a denied check
\* makes is_writable return false; the flag of an instance is known exactly
\* when a check was denied or a trial write ran, and once known it never
\* changes: every later is_writable returns it and issues nothing, leaving
\* the file and the instance as they are.  In a batch each file gets at most
\* one trial write.
C13_WritableMemoized ==
    /\ [](pc = "client" /\ editor # NoEditor =>
             /\ Cardinality(ProbesRun(editor.file)) <= 1
             /\ editor.writable # None <=>
                   \/ ProbesRun(editor.file) # {}
                   \/ Invocations(editor.file, "access", "fail") # {})
    /\ [](\A n \in 1..Len(log) :
             log[n].op = "probe" =>
                /\ n > 1 /\ log[n - 1].op = "access" /\ log[n - 1].rc = "ok"
                /\ log[n - 1].file = log[n].file
                /\ \A m \in 1..(n - 1) :
                      ~(log[m].file = log[n].file /\ log[m].op = "access"
                          /\ log[m].rc = "fail"))
    /\ [](InBatch =>
             \A j \in 1..Len(files) :
                Cardinality({n \in 1..Len(log) : log[n].file = j /\ log[n].op = "probe"}) <= 1)
    /\ [][pc = "client" =>
             /\ (IssuedInStep("access") /\ ~IssuedInStep("probe") =>
                    ~ret'.ok /\ editor'.writable = Some(FALSE))
             /\ (editor # NoEditor /\ editor.writable # None =>
                    /\ editor'.writable = editor.writable
                    /\ ~IssuedInStep("access") /\ ~IssuedInStep("probe")
                    /\ (ret'.op = "is_writable" =>
                           /\ ret'.ok = editor.writable[1] /\ ~ret'.raised
                           /\ log' = log /\ files' = files /\ editor' = editor))]_vars

\* C13 witness: a caller has called is_writable twice, both calls returned
\* true and the only invocations are the first call's check and trial write
C13_Witness ==
    /\ pc = "client" /\ ncalls = 2
    /\ ret.op = "is_writable" /\ ret.ok
    /\ Len(log) = 2 /\ log[1].op = "access" /\ log[2].op = "probe" /\ log[2].rc = "ok"
    /\ editor.writable = Some(TRUE)

\* C14: the property user_comment never returns None: whenever it returns,
\* it returns a string, which is the cached annotation when the instance
\* holds one and the empty string otherwise (a new instance whose read
\* failed); an instance that has read the metadata holds an annotation, the
\* empty string for a file without the tag, and keeps holding one after
\* every update.
C14_UserCommentNeverNone ==
    /\ ret.op = "user_comment" /\ ~ret.raised =>
          /\ ret.val # None
          /\ (editor.user_comment # None => ret.val = editor.user_comment)
          /\ (editor.user_comment = None => ret.val = Some(<<>>))
    /\ editor.metadata_read =>
          /\ editor.user_comment # None
          /\ (Invocations(editor.file, "commit", "ok") = {} /\ files0[editor.file].uc = <<>>
                => editor.user_comment = Some(<<>>))

\* C14 witness: user_comment was read on an instance whose read failed and
\* returned the empty string, the instance holding no annotation
C14_Witness ==
    /\ pc = "client"
    /\ ret.op = "user_comment" /\ ~ret.raised
    /\ ~editor.metadata_read /\ editor.user_comment = None
    /\ ret.val = Some(<<>>)
    /\ log # <<>> /\ log[Len(log)].op = "read" /\ log[Len(log)].rc = "fail"

\* the program was started from the command line
FromCommandLine == pc \in {"main", "process_files", "loop", "done", "exit0", "exit1", "crashed"}

\* the start time and the directory of the command line both passed validation
Validated == is_valid_datetime_format(args.start_time) /\ args.dir_ok

\* the run was aborted: sys.exit(1), or an exception that left main
Aborted == pc \in {"exit1", "crashed"}

\* C15: in a run from the command line no read, permission check, trial
\* write or combined write is issued unless the start time and the directory
\* have both passed validation; a run that fails validation is aborted with
\* no file touched; and a run is aborted only for one of these two errors.
C15_OnlyValidationAborts ==
    FromCommandLine =>
        /\ (log # <<>> => Validated)
        /\ (~Validated /\ pc # "main" => pc = "exit1" /\ log = <<>> /\ files = files0)
        /\ (Aborted => ~Validated)

\* the characters of s at the positions ps are all digits
DigitsAt(s, ps) == \A p \in ps : IsDigit(s[p])

\* the number written by the two digits of s at p and p + 1
TwoDigits(s, p) == DigitVal(s[p]) * 10 + DigitVal(s[p + 1])

\* s has the zero-padded form YYYY:MM:DD HH:MM:SS and names a date and a
\* time of day that exist
IsCanonical(s) ==
    /\ Len(s) = 19
    /\ DigitsAt(s, {1, 2, 3, 4, 6, 7, 9, 10, 12, 13, 15, 16, 18, 19})
    /\ s[5] = ":" /\ s[8] = ":" /\ s[11] = " " /\ s[14] = ":" /\ s[17] = ":"
    /\ LET year == TwoDigits(s, 1) * 100 + TwoDigits(s, 3)
       IN  /\ year >= 1
           /\ TwoDigits(s, 6) \in 1..12
           /\ TwoDigits(s, 9) \in 1..DaysInMonth(year, TwoDigits(s, 6))
    /\ TwoDigits(s, 12) <= 23 /\ TwoDigits(s, 15) <= 59 /\ TwoDigits(s, 18) <= 59

\* C16: for every string that has not exactly the zero-padded form
\* YYYY:MM:DD HH:MM:SS or names a date that does not exist,
\* is_valid_datetime_format returns false and parse_datetime fails; so main
\* goes past validation only with such a start time.
C16_ExactFormat ==
    FromCommandLine =>
        /\ (~IsCanonical(args.start_time) =>
               /\ ~is_valid_datetime_format(args.start_time)
               /\ ~parse_datetime(args.start_time).ok)
        /\ (pc \notin {"main", "exit1"} => IsCanonical(args.start_time))

\* C17: when update_datetime_and_comment is called on an instance that has
\* not read the metadata and returns true, the annotation of the file
\* afterwards is the annotation the file held before the call joined with
\* the addition passed to the call.
C17_LazyUpdatePreservesAnnotation ==
    [][pc = "client" /\ editor # NoEditor /\ ~editor.metadata_read
       /\ ret'.op = "update_datetime_and_comment" /\ ret'.ok =>
          \E addition \in ClientAdditions :
             files'[editor.file].uc = JoinComment(files[editor.file].uc, addition)]_vars

\* the lines of the report whose class is in cs
Lines(cs) == Cardinality({j \in 1..Len(report) : report[j].class \in cs})

\* the last invocation issued in this step
LastInStep == log'[Len(log')]

\* the counter this step's iteration has to add to: "failed" for an
\* iteration that issued nothing (the accessor could not be constructed),
\* that ended in an exception or whose combined write failed, "skipped" for
\* a failed read, a denied permission check or a failed trial write,
\* "succeeded" for a successful combined write or a simulation
Classified ==
    IF Len(log') = Len(log) THEN "failed"
    ELSE IF LastInStep.rc = "raise" THEN "failed"
    ELSE IF report'[Len(report')].class = "exception" THEN "failed"
    ELSE IF LastInStep.rc = "fail"
    THEN (IF LastInStep.op = "commit" THEN "failed" ELSE "skipped")
    ELSE "succeeded"

\* C18: while process_files runs and when it has ended, succeeded + skipped
\* + failed is the number of files handled so far, each counter is the
\* number of files that ended in its classes, and at the end the three sum
\* to the number of files; an iteration adds one to exactly one counter and
\* leaves the other two as they are: skipped for a read or writability
\* failure, failed for a commit failure or an exception (a missing file at
\* construction included), succeeded for a successful commit or a dry-run
\* simulation.
C18_EachFileCountedOnce ==
    /\ [](InBatch =>
             /\ processed_count + skipped_count + error_count = index
             /\ index = Len(report)
             /\ processed_count = Lines({"updated", "dry_run"})
             /\ skipped_count = Lines({"skip_read", "skip_write"})
             /\ error_count = Lines({"update_failed", "not_found", "exception"})
             /\ (pc = "done" =>
                    processed_count + skipped_count + error_count = Len(files)))
    /\ [][pc = "loop" /\ pc' = "loop" =>
             /\ index' = index + 1
             /\ processed_count' =
                   processed_count + (IF Classified = "succeeded" THEN 1 ELSE 0)
             /\ skipped_count' = skipped_count + (IF Classified = "skipped" THEN 1 ELSE 0)
             /\ error_count' = error_count + (IF Classified = "failed" THEN 1 ELSE 0)
             /\ (Classified = "succeeded" =>
                    \/ (args.dry_run /\ LastInStep.op = "read")
                    \/ (~args.dry_run /\ LastInStep.op = "commit"))]_vars
    /\ [][pc = "loop" /\ pc' = "done" =>
             /\ processed_count' = processed_count
             /\ skipped_count' = skipped_count
             /\ error_count' = error_count]_vars

\* C18 witness: a run over three files has ended with one file succeeded,
\* one skipped and one failed
C18_Witness ==
    /\ pc = "done" /\ Len(files) = 3 /\ ~args.dry_run
    /\ processed_count = 1 /\ skipped_count = 1 /\ error_count = 1

\* the place of an operation in the order of the operations on one file
Rank(op) == CASE op = "read" -> 1 [] op = "access" -> 2 [] op = "probe" -> 3 [] op = "commit" -> 4

\* an invocation of kind op on the file of log[n] ended rc before log[n]
Before(n, op, rc) ==
    \E m \in 1..(n - 1) : log[m].file = log[n].file /\ log[m].op = op /\ log[m].rc = rc

\* C19: in a batch that is not a dry run the invocations are issued one
\* after the other in the order of the listing: none on an earlier file
\* comes after one on a later file; on one file they come in the order
\* read, permission check, trial write, combined write, each at most once;
\* the permission check is made only after a successful read, the trial
\* write only after a successful read and a granted permission check, the
\* combined write only after a successful read and a successful trial
\* write; and an iteration issues invocations on its own file only.
C19_InvocationsOrdered ==
    /\ [](InBatch /\ ~args.dry_run =>
             /\ \A m, n \in 1..Len(log) :
                   m < n =>
                      /\ log[m].file <= log[n].file
                      /\ (log[m].file = log[n].file => Rank(log[m].op) < Rank(log[n].op))
             /\ \A n \in 1..Len(log) :
                   /\ (log[n].op = "access" => Before(n, "read", "ok"))
                   /\ (log[n].op = "probe" =>
                          Before(n, "read", "ok") /\ Before(n, "access", "ok"))
                   /\ (log[n].op = "commit" =>
                          Before(n, "read", "ok") /\ Before(n, "probe", "ok"))
                   /\ log[n].file <= index)
    /\ [][pc = "loop" /\ ~args.dry_run =>
             /\ SubSeq(log', 1, Len(log)) = log
             /\ \A n \in (Len(log) + 1)..Len(log') : log'[n].file = index + 1]_vars

\* C19 witness: the first file got read, permission check, trial write and
\* combined write in this order, and the next invocation is the read of
\* the second file
C19_Witness ==
    /\ InBatch /\ ~args.dry_run /\ Len(log) >= 5
    /\ log[1].op = "read" /\ log[2].op = "access" /\ log[3].op = "probe"
    /\ log[4].op = "commit" /\ log[4].file = 1
    /\ log[5].op = "read" /\ log[5].file = 2

====
